---- MODULE Spec2Model ----
(***************************************************************************)
(* Model of the hotel scraper HTTP API (src/unnamed/part_000): the four    *)
(* POST handlers hotel-info, hotel-images, hotel-prices and                *)
(* hotel-suggestions.  One request is followed from its arrival to its     *)
(* response.  Every `await` of a handler is a step that either completes   *)
(* or throws; the live DOM of the upstream site is an input observed at    *)
(* each step.  A second specification, SpecConc, follows several requests  *)
(* that the event loop interleaves at their awaits.                        *)
(***************************************************************************)
EXTENDS Integers, Sequences, FiniteSets, TLC

VARIABLES
    endpoint,          \* which POST route received the request
    body,              \* req.body
    nodeEnv,           \* process.env.NODE_ENV
    pc,                \* position of the handler
    browser,           \* "none" | "open" | "closed"
    thrownAt,          \* the step whose await threw, "" when none did
    nav,               \* the automation steps performed so far
    hotelInfo,         \* result of the hotel-info extraction (<<>> is null)
    hotelImages,       \* candidates extracted by hotel-images
    validation,        \* per candidate: "pending" | "stalled" | "image" | "null"
    priceListings,     \* result of the hotel-prices extraction
    hotelSuggestions,  \* result of the hotel-suggestions extraction
    dom,               \* the elements the extractor's selector matched
    response,          \* the response sent, status 0 when none was
    sent,              \* number of responses sent
    requests,          \* SpecConc: the handler invocations in flight
    browsers           \* SpecConc: the browser processes, by launching request

vars == <<endpoint, body, nodeEnv, pc, browser, thrownAt, nav, hotelInfo,
          hotelImages, validation, priceListings, hotelSuggestions, dom,
          response, sent, requests, browsers>>

concVars == <<requests, browsers>>
reqVars == <<endpoint, body, nodeEnv>>
dataVars == <<hotelInfo, hotelImages, validation, priceListings,
              hotelSuggestions, dom>>
resVars == <<response, sent>>

(***************************************************************************)
(* Bounds of the model.                                                    *)
(***************************************************************************)
\* Largest number of elements a page holds for one extractor's selector.
MaxElems == 12
\* Largest offset into the attribute pools the elements of a page draw from.
MaxShift == 1
\* Largest number of room anchors in a provider section.
MaxRooms == 3
\* .slice(0, 10) of the images extractor and of the suggestions extractor.
ImagesLimit == 10
SuggestionsLimit == 10

(***************************************************************************)
(* JavaScript values.                                                      *)
(***************************************************************************)
Undefined == "#undefined"
NoElement == "#null"

\* !v for the values a body field or a DOM text can take
Falsy(v) == v \in {Undefined, NoElement, ""}

\* el?.prop: undefined when the element is missing
OptChain(v) == IF v = NoElement THEN Undefined ELSE v

\* a || b
Or(a, b) == IF Falsy(a) THEN b ELSE a

\* array.join(sep)
RECURSIVE Join(_, _)
Join(s, sep) ==
    IF Len(s) = 0 THEN ""
    ELSE IF Len(s) = 1 THEN s[1]
    ELSE s[1] \o sep \o Join(Tail(s), sep)

\* array.slice(0, n)
Slice(s, n) == SubSeq(s, 1, IF Len(s) < n THEN Len(s) ELSE n)

\* string.startsWith(prefix), strings as sequences of characters
StartsWith(s, prefix) ==
    /\ Len(s) >= Len(prefix)
    /\ SubSeq(s, 1, Len(prefix)) = prefix

\* The texts a DOM node can carry, and a node that is missing.
DomTexts == {NoElement, "", "txt"}

NoResponse == [status |-> 0, keys |-> {}, payload |-> <<>>,
               error |-> Undefined, message |-> Undefined]

\* landmark: what the handler learnt about the artifact's landmark container
\* ui: the page interactions of the branch on the UI state, in the order in
\*     which they completed
NavInit == [launch |-> 0, goto |-> 0, entityClick |-> 0, tabClick |-> 0,
            extract |-> 0, close |-> 0, head |-> 0, landmark |-> "unknown",
            ui |-> <<>>,
            \* the URL handed to page.goto, in parts
            url |-> <<>>,
            \* the URLs a HEAD request was sent to, in the order of sending
            headTo |-> <<>>,
            \* a HEAD request settled before one of an earlier candidate
            reordered |-> FALSE]

Bump(field) == nav' = [nav EXCEPT ![field] = @ + 1]

\* A page interaction that completed.
Ui(event) == nav' = [nav EXCEPT !.ui = Append(@, event)]

\* A click that completed.
Click(field, event) ==
    nav' = [nav EXCEPT ![field] = @ + 1, !.ui = Append(@, event)]

Landmark(seen) == nav' = [nav EXCEPT !.landmark = seen]

\* page.goto(url) completed.
Navigate(url) == nav' = [nav EXCEPT !.goto = @ + 1, !.url = url]

TravelSearch == "https://www.google.com/travel/search?q="

\* encodeURIComponent over a string given in parts: a space becomes %20; the
\* request values of the model hold unreserved characters only and are kept.
EncodeURIComponent(parts) ==
    [i \in 1..Len(parts) |-> IF parts[i] = " " THEN "%20" ELSE parts[i]]

\* `https://www.google.com/travel/search?q=${encodeURIComponent(destination)}`
DestinationSearchUrl(b) ==
    <<TravelSearch>> \o EncodeURIComponent(<<b.destination>>)

\* A search query that also names the stay.
PricesSearchQuery_WithDates(b) ==
    <<b.hotelName, " ", b.location, " ", b.checkInDate, " ", b.checkOutDate>>

\* `${hotelName} ${location}`
PricesSearchQuery(b) == <<b.hotelName, " ", b.location>>

\* `https://www.google.com/travel/search?q=${encodeURIComponent(searchQuery)}`
PricesSearchUrl(b) ==
    <<TravelSearch>> \o EncodeURIComponent(PricesSearchQuery(b))

(***************************************************************************)
(* Requests.                                                               *)
(***************************************************************************)
FieldValues == {Undefined, "", "given"}

\* The dates a hotel-prices request may carry: absent, empty, or one of two
\* days.
DateValues == {Undefined, "", "2025-06-01", "2025-06-05"}

EmptyBody == [destination |-> Undefined, hotelName |-> Undefined,
              location |-> Undefined, checkInDate |-> Undefined,
              checkOutDate |-> Undefined, checkIn |-> Undefined,
              checkOut |-> Undefined, travelers |-> Undefined]

DestinationBodies ==
    {[EmptyBody EXCEPT !.destination = d] : d \in FieldValues}

PricesBodies ==
    {[EmptyBody EXCEPT !.hotelName = h, !.location = l,
                       !.checkInDate = i, !.checkOutDate = o] :
        h \in FieldValues, l \in FieldValues,
        i \in DateValues, o \in DateValues}

SuggestionsBodies ==
    {[EmptyBody EXCEPT !.destination = d, !.checkIn = i,
                       !.checkOut = o, !.travelers = t] :
        d \in FieldValues, i \in {Undefined, "given"},
        o \in {Undefined, "given"}, t \in {Undefined, "given"}}

Bodies(e) ==
    CASE e = "info" -> DestinationBodies
      [] e = "images" -> DestinationBodies
      [] e = "prices" -> PricesBodies
      [] e = "suggestions" -> SuggestionsBodies

Endpoints == {"info", "images", "prices", "suggestions"}

Init ==
    /\ endpoint \in Endpoints
    /\ body \in Bodies(endpoint)
    /\ nodeEnv \in {"development", "production"}
    /\ pc = "start"
    /\ browser = "none"
    /\ thrownAt = ""
    /\ nav = NavInit
    /\ hotelInfo = <<>>
    /\ hotelImages = <<>>
    /\ validation = <<>>
    /\ priceListings = <<>>
    /\ hotelSuggestions = <<>>
    /\ dom = <<>>
    /\ response = NoResponse
    /\ sent = 0
    /\ requests = <<>>
    /\ browsers = <<>>

(***************************************************************************)
(* Steps shared by the handlers' translations.                             *)
(***************************************************************************)
\* res.status(status).json(...): keys are the properties JSON.stringify
\* keeps (a property whose value is undefined is dropped).
Respond(status, keys, payload) ==
    /\ response' = [status |-> status, keys |-> keys, payload |-> payload,
                    error |-> Undefined, message |-> Undefined]
    /\ sent' = sent + 1

\* A failure body: its `error` text and its `message` (undefined when the
\* body has none).
RespondError(status, error, message, keys) ==
    /\ response' = [status |-> status, keys |-> keys, payload |-> <<>>,
                    error |-> error, message |-> message]
    /\ sent' = sent + 1

\* An awaited automation step rejects: control goes to the handler's catch.
Raise ==
    /\ pc' = "catch"
    /\ thrownAt' = pc
    /\ UNCHANGED <<concVars, reqVars, browser, nav, dataVars, resVars>>

\* The wait for the landmark container times out and rejects.
RaiseNoLandmark ==
    /\ pc' = "catch"
    /\ thrownAt' = pc
    /\ Landmark("absent")
    /\ UNCHANGED <<concVars, reqVars, browser, dataVars, resVars>>

\* The step completes and the handler moves on to `next`.
Goto(next) ==
    /\ pc' = next
    /\ UNCHANGED thrownAt

\* The `error` text of each handler's catch block.
CatchError(e) ==
    CASE e = "info" -> "Failed to scrape hotel information"
      [] e = "images" -> "Failed to scrape hotel images"
      [] e = "prices" -> "Failed to fetch hotel prices"
      [] e = "suggestions" -> "Failed to scrape hotel deals"

\* details: NODE_ENV === 'development' ? error.stack : undefined
ErrorKeys_AlwaysDetails == {"error", "message", "details"}

\* The properties of the body every handler's catch block sends.
ErrorKeys ==
    {"error", "message"} \cup
        (IF nodeEnv = "development" THEN {"details"} ELSE {})

Catch(e) ==
    /\ endpoint = e
    /\ pc = "catch"
    /\ RespondError(500, CatchError(e), thrownAt, ErrorKeys)
    /\ pc' = "done"
    /\ UNCHANGED <<concVars, reqVars, browser, thrownAt, nav, dataVars>>

(***************************************************************************)
(* POST /api/hotel-info                                                    *)
(***************************************************************************)
HotelInfoValidate ==
    /\ endpoint = "info"
    /\ pc = "start"
    /\ IF Falsy(body.destination)
       THEN /\ RespondError(400, "Missing required parameter: destination",
                            Undefined, {"error", "example"})
            /\ Goto("done")
       ELSE /\ Goto("launch")
            /\ UNCHANGED resVars
    /\ UNCHANGED <<concVars, reqVars, browser, nav, dataVars>>

HotelInfoLaunch ==
    /\ endpoint = "info"
    /\ pc = "launch"
    /\ \/ /\ browser' = "open"
          /\ Bump("launch")
          /\ Goto("goto")
          /\ UNCHANGED <<concVars, reqVars, dataVars, resVars>>
       \/ Raise

HotelInfoGoto ==
    /\ endpoint = "info"
    /\ pc = "goto"
    /\ \/ /\ Navigate(DestinationSearchUrl(body))
          /\ Goto("checkTab")
          /\ UNCHANGED <<concVars, reqVars, browser, dataVars, resVars>>
       \/ Raise

HotelInfoCheckTab ==
    /\ endpoint = "info"
    /\ pc = "checkTab"
    /\ \/ /\ \E aboutTabExists \in BOOLEAN :
                IF aboutTabExists
                THEN Ui("tabPresent") /\ Goto("clickTabDirect")
                ELSE Ui("tabAbsent") /\ Goto("waitEntity")
          /\ UNCHANGED <<concVars, reqVars, browser, dataVars, resVars>>
       \/ Raise

HotelInfoClickTabDirect ==
    /\ endpoint = "info"
    /\ pc = "clickTabDirect"
    /\ \/ /\ Click("tabClick", "clickTab")
          /\ Goto("waitLandmark")
          /\ UNCHANGED <<concVars, reqVars, browser, dataVars, resVars>>
       \/ Raise

HotelInfoWaitEntity ==
    /\ endpoint = "info"
    /\ pc = "waitEntity"
    /\ \/ /\ Ui("waitEntity")
          /\ Goto("clickEntity")
          /\ UNCHANGED <<concVars, reqVars, browser, dataVars, resVars>>
       \/ Raise

HotelInfoClickEntity_NoNavigationWait ==
    /\ endpoint = "info"
    /\ pc = "clickEntity"
    /\ \/ /\ Click("entityClick", "clickEntity")
          /\ Goto("waitTab")
          /\ UNCHANGED <<concVars, reqVars, browser, dataVars, resVars>>
       \/ Raise

HotelInfoClickEntity ==
    /\ endpoint = "info"
    /\ pc = "clickEntity"
    /\ \/ /\ Click("entityClick", "clickEntity")
          /\ Goto("waitNavigation")
          /\ UNCHANGED <<concVars, reqVars, browser, dataVars, resVars>>
       \/ Raise

HotelInfoWaitNavigation ==
    /\ endpoint = "info"
    /\ pc = "waitNavigation"
    /\ \/ /\ Ui("waitNavigation")
          /\ Goto("waitTab")
          /\ UNCHANGED <<concVars, reqVars, browser, dataVars, resVars>>
       \/ Raise

HotelInfoWaitTab ==
    /\ endpoint = "info"
    /\ pc = "waitTab"
    /\ \/ /\ Ui("waitTab")
          /\ Goto("clickTab")
          /\ UNCHANGED <<concVars, reqVars, browser, dataVars, resVars>>
       \/ Raise

HotelInfoClickTab ==
    /\ endpoint = "info"
    /\ pc = "clickTab"
    /\ \/ /\ Click("tabClick", "clickTab")
          /\ Goto("waitLandmark")
          /\ UNCHANGED <<concVars, reqVars, browser, dataVars, resVars>>
       \/ Raise

HotelInfoWaitLandmark_Retry ==
    /\ endpoint = "info"
    /\ pc = "waitLandmark"
    /\ \/ /\ Landmark("found")
          /\ Goto("extract")
       \/ /\ Landmark("absent")
          /\ Goto("checkTab")
    /\ UNCHANGED <<concVars, reqVars, browser, dataVars, resVars>>

\* waitForSelector('section.mEKuwe', { timeout: 15000 }) rejects on timeout.
HotelInfoWaitLandmark ==
    /\ endpoint = "info"
    /\ pc = "waitLandmark"
    /\ \/ /\ Landmark("found")
          /\ Goto("extract")
          /\ UNCHANGED <<concVars, reqVars, browser, dataVars, resVars>>
       \/ RaiseNoLandmark

\* The About sections the page can show when the extractor runs.
Paragraphs == {<<>>, <<"p1">>, <<"", "p2">>, <<"p1", "p2">>}

AboutSections ==
    [paragraphs : Paragraphs, checkIn : DomTexts, checkOut : DomTexts,
     address : DomTexts, phone : DomTexts, website : DomTexts]

\* The record the page.evaluate callback builds from a present section.
ExtractHotelInfo(aboutSection) ==
    [description |->
        Join(SelectSeq(aboutSection.paragraphs, LAMBDA t : ~Falsy(t)), "\n\n"),
     checkInTime |-> Or(OptChain(aboutSection.checkIn), ""),
     checkOutTime |-> Or(OptChain(aboutSection.checkOut), ""),
     address |-> Or(OptChain(aboutSection.address), ""),
     phone |-> Or(OptChain(aboutSection.phone), ""),
     websiteUrl |-> Or(OptChain(aboutSection.website), "")]

HotelInfoExtract ==
    /\ endpoint = "info"
    /\ pc = "extract"
    /\ \/ /\ \/ /\ hotelInfo' = <<>>     \* querySelector found no section
                /\ nav' = [nav EXCEPT !.extract = @ + 1,
                                      !.landmark = "absent"]
             \/ /\ \E aboutSection \in AboutSections :
                       hotelInfo' = <<ExtractHotelInfo(aboutSection)>>
                /\ Bump("extract")
          /\ Goto("close")
          /\ UNCHANGED <<concVars, reqVars, browser, hotelImages, validation,
                         priceListings, hotelSuggestions, dom, resVars>>
       \/ Raise

HotelInfoClose ==
    /\ endpoint = "info"
    /\ pc = "close"
    /\ \/ /\ browser' = "closed"
          /\ Bump("close")
          /\ Goto("respond")
          /\ UNCHANGED <<concVars, reqVars, dataVars, resVars>>
       \/ Raise

HotelInfoRespond ==
    /\ endpoint = "info"
    /\ pc = "respond"
    /\ IF hotelInfo = <<>>
       THEN RespondError(404, "Could not find hotel information",
                 "The hotel information could not be found. Please try a different hotel name or location.",
                 {"error", "message"})
       ELSE Respond(200, {"hotelInfo"}, hotelInfo)
    /\ Goto("done")
    /\ UNCHANGED <<concVars, reqVars, browser, nav, dataVars>>

HotelInfoCatch == Catch("info")

(***************************************************************************)
(* validateImageUrl and the HTTP client it calls.                          *)
(***************************************************************************)
NoHeader == [isNull |-> TRUE, chars |-> <<>>]
Header(chars) == [isNull |-> FALSE, chars |-> chars]

ImagePng == <<"i", "m", "a", "g", "e", "/", "p", "n", "g">>
TextHtml == <<"t", "e", "x", "t", "/", "h", "t", "m", "l">>
XImage == <<"x", "-", "i", "m", "a", "g", "e", "/", "p", "n", "g">>
ImageSlash == <<"i", "m", "a", "g", "e", "/">>

\* fetch(url, { method: 'HEAD' }): what each URL of the model answers.
\* The empty URL is not absolute and the client throws on it.
Fetch(url) ==
    CASE url = "u-png" ->
            [throws |-> FALSE, ok |-> TRUE, contentType |-> Header(ImagePng)]
      [] url = "u-html" ->
            [throws |-> FALSE, ok |-> TRUE, contentType |-> Header(TextHtml)]
      [] url = "u-404" ->
            [throws |-> FALSE, ok |-> FALSE, contentType |-> Header(ImagePng)]
      [] url = "u-notype" ->
            [throws |-> FALSE, ok |-> TRUE, contentType |-> NoHeader]
      [] url = "u-ximage" ->
            [throws |-> FALSE, ok |-> TRUE, contentType |-> Header(XImage)]
      [] OTHER ->
            [throws |-> TRUE, ok |-> FALSE, contentType |-> NoHeader]

\* validateImageUrl with the content-type test left out.
validateImageUrl_OkOnly(url) ==
    LET res == Fetch(url) IN
    IF res.throws THEN FALSE ELSE res.ok

validateImageUrl(url) ==
    LET res == Fetch(url) IN
    IF res.throws THEN FALSE
    ELSE /\ res.ok
         /\ ~res.contentType.isNull
         /\ StartsWith(res.contentType.chars, ImageSlash)

\* How the promise of validateImageUrl(url) settles when the catch around
\* the fetch is left out: a thrown fetch rejects it.
validateImageUrlSettles_NoCatch(url) ==
    [rejected |-> Fetch(url).throws, value |-> validateImageUrl(url)]

\* How the promise of validateImageUrl(url) settles: the whole body is
\* inside try/catch and the catch returns false, so it always fulfils.
validateImageUrlSettles(url) ==
    [rejected |-> FALSE, value |-> validateImageUrl(url)]

(***************************************************************************)
(* POST /api/hotel-images                                                  *)
(***************************************************************************)
\* Attribute and text pools the photo elements of a page draw from.
SrcPool == <<"u-png", "u-html", "u-404", NoElement, "u-notype", "u-png",
             "u-ximage", "u-neterr", "">>
CaptionPool == <<"Lobby", NoElement, "">>
AltTexts == <<"Photo 1", "Photo 2", "Photo 3", "Photo 4", "Photo 5",
              "Photo 6", "Photo 7", "Photo 8", "Photo 9", "Photo 10",
              "Photo 11", "Photo 12", "Photo 13", "Photo 14", "Photo 15",
              "Photo 16">>

Pick(pool, k) == pool[(k % Len(pool)) + 1]

\* The img[alt^="Photo "] elements of a page with n photos, in document
\* order; shift varies which attributes are missing.
PhotoElements(n, shift) ==
    [i \in 1..n |-> [src |-> Pick(SrcPool, i + shift),
                     alt |-> AltTexts[i],
                     caption |-> Pick(CaptionPool, i + shift)]]

ImageRecord(img) ==
    [url |-> Or(img.src, ""),
     alt |-> Or(img.alt, ""),
     caption |-> Or(OptChain(img.caption), "")]

\* The images extractor without its .slice(0, 10).
ExtractHotelImages_NoSlice(imageElements) ==
    [i \in 1..Len(imageElements) |-> ImageRecord(imageElements[i])]

\* Array.from(imageElements).map(...).slice(0, 10)
ExtractHotelImages(imageElements) ==
    Slice([i \in 1..Len(imageElements) |-> ImageRecord(imageElements[i])],
          ImagesLimit)

HotelImagesValidate ==
    /\ endpoint = "images"
    /\ pc = "start"
    /\ IF Falsy(body.destination)
       THEN /\ RespondError(400, "Missing required parameter: destination",
                            Undefined, {"error", "example"})
            /\ Goto("done")
       ELSE /\ Goto("launch")
            /\ UNCHANGED resVars
    /\ UNCHANGED <<concVars, reqVars, browser, nav, dataVars>>

HotelImagesLaunch ==
    /\ endpoint = "images"
    /\ pc = "launch"
    /\ \/ /\ browser' = "open"
          /\ Bump("launch")
          /\ Goto("goto")
          /\ UNCHANGED <<concVars, reqVars, dataVars, resVars>>
       \/ Raise

HotelImagesGoto ==
    /\ endpoint = "images"
    /\ pc = "goto"
    /\ \/ /\ Navigate(DestinationSearchUrl(body))
          /\ Goto("checkEntity")
          /\ UNCHANGED <<concVars, reqVars, browser, dataVars, resVars>>
       \/ Raise

HotelImagesCheckEntity ==
    /\ endpoint = "images"
    /\ pc = "checkEntity"
    /\ \/ /\ \E entityLinkExists \in BOOLEAN :
                Goto(IF entityLinkExists THEN "waitEntityVisible"
                                         ELSE "checkTab")
          /\ UNCHANGED <<concVars, reqVars, browser, nav, dataVars, resVars>>
       \/ Raise

HotelImagesWaitEntityVisible ==
    /\ endpoint = "images"
    /\ pc = "waitEntityVisible"
    /\ \/ /\ Ui("waitEntityVisible")
          /\ Goto("click1")
          /\ UNCHANGED <<concVars, reqVars, browser, dataVars, resVars>>
       \/ Raise

\* Method 1: page.click; its failure is caught and leads to method 2.
HotelImagesDirectClick ==
    /\ endpoint = "images"
    /\ pc = "click1"
    /\ \/ /\ Click("entityClick", "click1")
          /\ Goto("waitNavigation")
       \/ /\ Ui("click1Failed")
          /\ Goto("click2")
    /\ UNCHANGED <<concVars, reqVars, browser, dataVars, resVars>>

\* Method 2: click inside page.evaluate; it completes whether or not the
\* link was found, and its failure is caught and leads to method 3.
HotelImagesEvaluateClick ==
    /\ endpoint = "images"
    /\ pc = "click2"
    /\ \/ /\ \E link \in BOOLEAN :
                IF link THEN Click("entityClick", "click2")
                        ELSE Ui("click2NoLink")
          /\ Goto("waitNavigation")
       \/ /\ Ui("click2Failed")
          /\ Goto("click3")
    /\ UNCHANGED <<concVars, reqVars, browser, dataVars, resVars>>

\* Method 3: page.$ then element.click({ delay: 100 }); neither is guarded.
HotelImagesHandleClick ==
    /\ endpoint = "images"
    /\ pc = "click3"
    /\ \/ /\ \E element \in BOOLEAN :
                IF element THEN Click("entityClick", "click3")
                           ELSE Ui("click3NoElement")
          /\ Goto("waitNavigation")
          /\ UNCHANGED <<concVars, reqVars, browser, dataVars, resVars>>
       \/ Raise

\* waitForNavigation(...).catch(...): a timeout is logged and swallowed.
HotelImagesWaitNavigation ==
    /\ endpoint = "images"
    /\ pc = "waitNavigation"
    /\ \/ Ui("waitNavigation")
       \/ Ui("navigationTimeout")
    /\ Goto("checkTab")
    /\ UNCHANGED <<concVars, reqVars, browser, dataVars, resVars>>

HotelImagesCheckTab ==
    /\ endpoint = "images"
    /\ pc = "checkTab"
    /\ \/ /\ \E photosTabExists \in BOOLEAN :
                Goto(IF photosTabExists THEN "clickTabDirect"
                                        ELSE "waitEntity")
          /\ UNCHANGED <<concVars, reqVars, browser, nav, dataVars, resVars>>
       \/ Raise

HotelImagesClickTabDirect_NoClick ==
    /\ endpoint = "images"
    /\ pc = "clickTabDirect"
    /\ \/ /\ Goto("waitLandmark")
          /\ UNCHANGED <<concVars, reqVars, browser, nav, dataVars, resVars>>
       \/ Raise

HotelImagesClickTabDirect ==
    /\ endpoint = "images"
    /\ pc = "clickTabDirect"
    /\ \/ /\ Click("tabClick", "clickTab")
          /\ Goto("waitLandmark")
          /\ UNCHANGED <<concVars, reqVars, browser, dataVars, resVars>>
       \/ Raise

HotelImagesWaitEntity ==
    /\ endpoint = "images"
    /\ pc = "waitEntity"
    /\ \/ /\ Ui("waitEntity")
          /\ Goto("clickEntity")
          /\ UNCHANGED <<concVars, reqVars, browser, dataVars, resVars>>
       \/ Raise

HotelImagesClickEntity ==
    /\ endpoint = "images"
    /\ pc = "clickEntity"
    /\ \/ /\ Click("entityClick", "clickEntity")
          /\ Goto("waitNavigation2")
          /\ UNCHANGED <<concVars, reqVars, browser, dataVars, resVars>>
       \/ Raise

HotelImagesWaitNavigation2 ==
    /\ endpoint = "images"
    /\ pc = "waitNavigation2"
    /\ \/ /\ Ui("waitNavigation")
          /\ Goto("waitTab")
          /\ UNCHANGED <<concVars, reqVars, browser, dataVars, resVars>>
       \/ Raise

HotelImagesWaitTab ==
    /\ endpoint = "images"
    /\ pc = "waitTab"
    /\ \/ /\ Ui("waitTab")
          /\ Goto("clickTab")
          /\ UNCHANGED <<concVars, reqVars, browser, dataVars, resVars>>
       \/ Raise

HotelImagesClickTab ==
    /\ endpoint = "images"
    /\ pc = "clickTab"
    /\ \/ /\ Click("tabClick", "clickTab")
          /\ Goto("waitLandmark")
          /\ UNCHANGED <<concVars, reqVars, browser, dataVars, resVars>>
       \/ Raise

\* waitForSelector('[data-hotel-feature-id]', { timeout: 15000 })
HotelImagesWaitLandmark ==
    /\ endpoint = "images"
    /\ pc = "waitLandmark"
    /\ \/ /\ Landmark("found")
          /\ Goto("extract")
          /\ UNCHANGED <<concVars, reqVars, browser, dataVars, resVars>>
       \/ RaiseNoLandmark

HotelImagesExtract ==
    /\ endpoint = "images"
    /\ pc = "extract"
    /\ \/ /\ \E n \in 0..MaxElems, shift \in 0..MaxShift :
                /\ dom' = PhotoElements(n, shift)
                /\ hotelImages' = ExtractHotelImages(PhotoElements(n, shift))
          /\ Bump("extract")
          /\ Goto("close")
          /\ UNCHANGED <<concVars, reqVars, browser, hotelInfo, validation,
                         priceListings, hotelSuggestions, resVars>>
       \/ Raise

HotelImagesClose_NoTeardown ==
    /\ endpoint = "images"
    /\ pc = "close"
    /\ Goto("checkImages")
    /\ UNCHANGED <<concVars, reqVars, browser, nav, dataVars, resVars>>

HotelImagesClose ==
    /\ endpoint = "images"
    /\ pc = "close"
    /\ \/ /\ browser' = "closed"
          /\ Bump("close")
          /\ Goto("checkImages")
          /\ UNCHANGED <<concVars, reqVars, dataVars, resVars>>
       \/ Raise

\* hotelImages.map(async image => ...): every callback runs up to its
\* await, so every HEAD request is issued before any of them completes.
\* fetch is called without a timeout or an abort signal: a HEAD request to
\* a server that never answers stays unsettled ("stalled").
StartValidation(images, stalled) ==
    [i \in 1..Len(images) |-> IF i \in stalled THEN "stalled" ELSE "pending"]

\* The candidates whose server never answers, in the pages of the model.
Stalls == {{}, {1}}

\* HEAD requests that are sent once per URL, however many candidates carry
\* it.
HeadRequests_Once(images) ==
    LET first == {i \in 1..Len(images) :
                     /\ images[i].url # ""
                     /\ \A j \in 1..(i - 1) : images[j].url # images[i].url}
        Index(m) == CHOOSE k \in first :
                        Cardinality({j \in first : j <= k}) = m
    IN [m \in 1..Cardinality(first) |-> images[Index(m)].url]

\* The HEAD requests hotelImages.map sends, in order: validateImageUrl is
\* called for each candidate, and fetch throws on a URL that is not absolute
\* (the empty one) before anything is sent.
HeadRequests(images) ==
    SelectSeq([i \in 1..Len(images) |-> images[i].url],
              LAMBDA url : url # "")

HotelImagesCheckImages ==
    /\ endpoint = "images"
    /\ pc = "checkImages"
    /\ IF Len(hotelImages) = 0
       THEN /\ RespondError(404, "Could not find hotel images",
                 "No images were found for the specified hotel. Please try a different hotel name or location.",
                 {"error", "message"})
            /\ Goto("done")
            /\ UNCHANGED <<nav, validation>>
       ELSE /\ \E stalled \in Stalls :
                  \* only a request that was sent can stay unanswered
                  /\ \A i \in stalled \cap (1..Len(hotelImages)) :
                        hotelImages[i].url # ""
                  /\ validation' = StartValidation(hotelImages, stalled)
            /\ nav' = [nav EXCEPT !.head = @ + Len(hotelImages),
                                  !.headTo = HeadRequests(hotelImages)]
            /\ Goto("validating")
            /\ UNCHANGED resVars
    /\ UNCHANGED <<concVars, reqVars, browser, hotelInfo, hotelImages, priceListings,
                   hotelSuggestions, dom>>

\* One HEAD request settles: isValid ? image : null.  A callback whose
\* promise rejected would reject Promise.all and take the handler to its
\* catch.
HotelImagesHeadDone ==
    /\ endpoint = "images"
    /\ pc = "validating"
    /\ \E i \in 1..Len(validation) :
          /\ validation[i] = "pending"
          /\ LET isValid == validateImageUrlSettles(hotelImages[i].url) IN
             IF isValid.rejected
             THEN /\ pc' = "catch"
                  /\ thrownAt' = pc
                  /\ UNCHANGED <<validation, nav>>
             ELSE /\ validation' = [validation EXCEPT ![i] =
                         IF isValid.value THEN "image" ELSE "null"]
                  /\ nav' = [nav EXCEPT !.reordered =
                                 @ \/ \E j \in 1..(i - 1) :
                                          validation[j] = "pending"]
                  /\ Goto("validating")
    /\ UNCHANGED <<concVars, reqVars, browser, hotelInfo, hotelImages,
                   priceListings, hotelSuggestions, dom, resVars>>

\* A filter that hands back the kept images last first.
FilterValid_LastFirst(images, validated) ==
    LET Keep(k) == Cardinality({j \in 1..k : validated[j] = "image"})
        Index(m) == CHOOSE k \in 1..Len(images) :
                        validated[k] = "image" /\ Keep(k) = m
        n == Keep(Len(images))
    IN [m \in 1..n |-> images[Index(n + 1 - m)]]

\* validatedImages.filter(image => image !== null)
FilterValid(images, validated) ==
    LET Keep(k) == Cardinality({j \in 1..k : validated[j] = "image"})
        Index(m) == CHOOSE k \in 1..Len(images) :
                        validated[k] = "image" /\ Keep(k) = m
    IN [m \in 1..Keep(Len(images)) |-> images[Index(m)]]

\* HotelImagesRespond without the check for an empty validImages.
HotelImagesRespond_NoEmptyCheck ==
    /\ endpoint = "images"
    /\ pc = "validating"
    /\ \A i \in 1..Len(validation) : validation[i] \in {"image", "null"}
    /\ Respond(200, {"hotelImages"}, FilterValid(hotelImages, validation))
    /\ Goto("done")
    /\ UNCHANGED <<concVars, reqVars, browser, nav, dataVars>>

\* HotelImagesRespond without the join on the pending validations.
HotelImagesRespond_NoJoin ==
    /\ endpoint = "images"
    /\ pc = "validating"
    /\ LET validImages == FilterValid(hotelImages, validation) IN
       IF Len(validImages) = 0
       THEN RespondError(404, "Could not find valid hotel images",
                 "No valid images were found after validation. Please try a different hotel name or location.",
                 {"error", "message"})
       ELSE Respond(200, {"hotelImages"}, validImages)
    /\ Goto("done")
    /\ UNCHANGED <<concVars, reqVars, browser, nav, dataVars>>

\* Promise.all has resolved: filter and respond.
HotelImagesRespond ==
    /\ endpoint = "images"
    /\ pc = "validating"
    /\ \A i \in 1..Len(validation) : validation[i] \in {"image", "null"}
    /\ LET validImages == FilterValid(hotelImages, validation) IN
       IF Len(validImages) = 0
       THEN RespondError(404, "Could not find valid hotel images",
                 "No valid images were found after validation. Please try a different hotel name or location.",
                 {"error", "message"})
       ELSE Respond(200, {"hotelImages"}, validImages)
    /\ Goto("done")
    /\ UNCHANGED <<concVars, reqVars, browser, nav, dataVars>>

HotelImagesCatch == Catch("images")

(***************************************************************************)
(* POST /api/hotel-prices                                                  *)
(***************************************************************************)
\* string.trim() on the texts of the model
Trim(t) == IF t = " " THEN "" ELSE t

\* el?.textContent?.trim()
TrimText(t) == IF t = NoElement THEN Undefined ELSE Trim(t)

\* t.includes('$') and t.toLowerCase().includes('taxes') on the span texts
\* of the model
IncludesDollar(t) == t \in {"$100", "$120 with taxes", "$90", "$80 incl. Taxes"}
IncludesTaxes(t) == t \in {"$120 with taxes", "$80 incl. Taxes"}

\* array.find(test), hits being the indices that pass the test: the first
\* element that passes, undefined when none does
Find(s, hits) ==
    IF hits = {} THEN Undefined
    ELSE s[CHOOSE i \in hits : \A j \in hits : i <= j]

TypeAPool == <<"Suite", NoElement, " ">>
TypeBPool == <<NoElement, "Room">>
SpanPool == << <<>>,
               <<"$100", "$120 with taxes">>,
               <<"Free cancellation", "", "$90">>,
               <<"$80 incl. Taxes">> >>

\* The a[href^="/aclk?"] anchors of a provider section, in document order.
RoomAnchors(k, shift) ==
    [i \in 1..k |-> [typeA |-> Pick(TypeAPool, i + shift),
                     typeB |-> Pick(TypeBPool, i + shift),
                     spans |-> Pick(SpanPool, i + shift),
                     href |-> "/aclk?a"]]

\* relativeUrl.startsWith('http') ? relativeUrl : travel prefix + relativeUrl.
\* The anchors the selector matches have hrefs starting with "/aclk?".
RoomUrl(relativeUrl) ==
    IF relativeUrl \in {"http://a", "https://a"} THEN relativeUrl
    ELSE "https://www.google.com/travel" \o relativeUrl

\* The roomData record of one anchor.  cancellationPolicy is declared and
\* never assigned; roomFeatures stays empty, so features is undefined.
RoomData(room) ==
    LET type == Or(TrimText(room.typeA),
                   Or(TrimText(room.typeB), "Unknown Room Type"))
        allSpans == room.spans
        basePrice ==
            Or(Find(allSpans,
                    {i \in 1..Len(allSpans) :
                        /\ ~Falsy(Trim(allSpans[i]))
                        /\ IncludesDollar(allSpans[i])
                        /\ ~IncludesTaxes(allSpans[i])}), "")
        totalPrice ==
            Or(Find(allSpans,
                    {i \in 1..Len(allSpans) :
                        /\ ~Falsy(Trim(allSpans[i]))
                        /\ IncludesDollar(allSpans[i])
                        /\ IncludesTaxes(allSpans[i])}), basePrice)
    IN [type |-> type,
        basePrice |-> basePrice,
        totalPrice |-> totalPrice,
        url |-> RoomUrl(Or(room.href, "")),
        cancellationPolicy |-> Undefined,
        features |-> Undefined]

\* A variant that gives up when a room shows no base price.
ExtractPriceListings_NeedsPrice(anchors) ==
    IF \E i \in 1..Len(anchors) : RoomData(anchors[i]).basePrice = ""
    THEN <<>>
    ELSE << [rooms |-> [i \in 1..Len(anchors) |-> RoomData(anchors[i])]] >>

\* The listing the extractor returns for a provider section: [{ rooms }]
ExtractPriceListings(anchors) ==
    << [rooms |-> [i \in 1..Len(anchors) |-> RoomData(anchors[i])]] >>

HotelPricesValidate ==
    /\ endpoint = "prices"
    /\ pc = "start"
    /\ IF \/ Falsy(body.hotelName) \/ Falsy(body.location)
          \/ Falsy(body.checkInDate) \/ Falsy(body.checkOutDate)
       THEN /\ RespondError(400, "Missing required parameters", Undefined,
                            {"error", "required"})
            /\ Goto("done")
       ELSE /\ Goto("launch")
            /\ UNCHANGED resVars
    /\ UNCHANGED <<concVars, reqVars, browser, nav, dataVars>>

HotelPricesLaunch ==
    /\ endpoint = "prices"
    /\ pc = "launch"
    /\ \/ /\ browser' = "open"
          /\ Bump("launch")
          /\ Goto("goto")
          /\ UNCHANGED <<concVars, reqVars, dataVars, resVars>>
       \/ Raise

HotelPricesGoto ==
    /\ endpoint = "prices"
    /\ pc = "goto"
    /\ \/ /\ Navigate(PricesSearchUrl(body))
          /\ Goto("checkEntity")
          /\ UNCHANGED <<concVars, reqVars, browser, dataVars, resVars>>
       \/ Raise

HotelPricesCheckEntity ==
    /\ endpoint = "prices"
    /\ pc = "checkEntity"
    /\ \/ /\ \E entityLinkExists \in BOOLEAN :
                Goto(IF entityLinkExists THEN "waitEntityVisible"
                                         ELSE "pricesTabDirect")
          /\ UNCHANGED <<concVars, reqVars, browser, nav, dataVars, resVars>>
       \/ Raise

HotelPricesWaitEntityVisible ==
    /\ endpoint = "prices"
    /\ pc = "waitEntityVisible"
    /\ \/ /\ Ui("waitEntityVisible")
          /\ Goto("click1")
          /\ UNCHANGED <<concVars, reqVars, browser, dataVars, resVars>>
       \/ Raise

HotelPricesDirectClick ==
    /\ endpoint = "prices"
    /\ pc = "click1"
    /\ \/ /\ Click("entityClick", "click1")
          /\ Goto("waitNavigation")
       \/ /\ Ui("click1Failed")
          /\ Goto("click2")
    /\ UNCHANGED <<concVars, reqVars, browser, dataVars, resVars>>

HotelPricesEvaluateClick ==
    /\ endpoint = "prices"
    /\ pc = "click2"
    /\ \/ /\ \E link \in BOOLEAN :
                IF link THEN Click("entityClick", "click2")
                        ELSE Ui("click2NoLink")
          /\ Goto("waitNavigation")
       \/ /\ Ui("click2Failed")
          /\ Goto("click3")
    /\ UNCHANGED <<concVars, reqVars, browser, dataVars, resVars>>

HotelPricesHandleClick ==
    /\ endpoint = "prices"
    /\ pc = "click3"
    /\ \/ /\ \E element \in BOOLEAN :
                IF element THEN Click("entityClick", "click3")
                           ELSE Ui("click3NoElement")
          /\ Goto("waitNavigation")
          /\ UNCHANGED <<concVars, reqVars, browser, dataVars, resVars>>
       \/ Raise

\* waitForNavigation(...).catch(...): a timeout is logged and swallowed.
HotelPricesWaitNavigation ==
    /\ endpoint = "prices"
    /\ pc = "waitNavigation"
    /\ \/ Ui("waitNavigation")
       \/ Ui("navigationTimeout")
    /\ Goto("pricesTab")
    /\ UNCHANGED <<concVars, reqVars, browser, dataVars, resVars>>

\* The Prices tab step without its try/catch: a missing tab rejects.
HotelPricesTab_NoTry ==
    /\ endpoint = "prices"
    /\ pc = "pricesTab"
    /\ \/ /\ Click("tabClick", "clickTab")
          /\ Goto("extract")
          /\ UNCHANGED <<concVars, reqVars, browser, dataVars, resVars>>
       \/ Raise

\* try { waitForSelector(Prices tab); click } catch { log }: either the tab
\* is clicked or the failure is swallowed.
HotelPricesTab ==
    /\ endpoint = "prices"
    /\ pc = "pricesTab"
    /\ \/ Click("tabClick", "clickTab")
       \/ Ui("tabMissed")
    /\ Goto("extract")
    /\ UNCHANGED <<concVars, reqVars, browser, dataVars, resVars>>

HotelPricesTabDirect ==
    /\ endpoint = "prices"
    /\ pc = "pricesTabDirect"
    /\ \/ Click("tabClick", "clickTab")
       \/ Ui("tabMissed")
    /\ Goto("extract")
    /\ UNCHANGED <<concVars, reqVars, browser, dataVars, resVars>>

HotelPricesExtract ==
    /\ endpoint = "prices"
    /\ pc = "extract"
    /\ \/ /\ \/ /\ priceListings' = <<>>     \* no provider section
                /\ dom' = <<>>
                /\ nav' = [nav EXCEPT !.extract = @ + 1,
                                      !.landmark = "absent"]
             \/ /\ \E k \in 1..MaxRooms, shift \in 0..MaxShift :
                       /\ dom' = RoomAnchors(k, shift)
                       /\ priceListings' =
                              ExtractPriceListings(RoomAnchors(k, shift))
                /\ nav' = [nav EXCEPT !.extract = @ + 1,
                                      !.landmark = "found"]
          /\ Goto("close")
          /\ UNCHANGED <<concVars, reqVars, browser, hotelInfo, hotelImages,
                         validation, hotelSuggestions, resVars>>
       \/ Raise

HotelPricesClose ==
    /\ endpoint = "prices"
    /\ pc = "close"
    /\ \/ /\ browser' = "closed"
          /\ Bump("close")
          /\ Goto("respond")
          /\ UNCHANGED <<concVars, reqVars, dataVars, resVars>>
       \/ Raise

HotelPricesRespond_NoEmptyCheck ==
    /\ endpoint = "prices"
    /\ pc = "respond"
    /\ Respond(200, {"prices"}, priceListings)
    /\ Goto("done")
    /\ UNCHANGED <<concVars, reqVars, browser, nav, dataVars>>

HotelPricesRespond ==
    /\ endpoint = "prices"
    /\ pc = "respond"
    /\ IF Len(priceListings) = 0
       THEN RespondError(404, "Could not find hotel prices",
                 "No price listings were found for the specified hotel. Please try a different hotel name or location.",
                 {"error", "message"})
       ELSE Respond(200, {"prices"}, priceListings)
    /\ Goto("done")
    /\ UNCHANGED <<concVars, reqVars, browser, nav, dataVars>>

HotelPricesCatch == Catch("prices")

(***************************************************************************)
(* POST /api/hotel-suggestions                                             *)
(***************************************************************************)
\* text.replace(/[()]/g, '') on the review texts of the model
StripParens(t) ==
    CASE t = "(120)" -> "120"
      [] t = "()" -> ""
      [] OTHER -> t

\* reviewsElement?.textContent?.replace(/[()]/g, '')
ReviewsText(t) == IF t = NoElement THEN Undefined ELSE StripParens(t)

HotelNames == <<"Hotel 1", "Hotel 2", "Hotel 3", "Hotel 4", "Hotel 5",
                "Hotel 6", "Hotel 7", "Hotel 8", "Hotel 9", "Hotel 10",
                "Hotel 11", "Hotel 12", "Hotel 13", "Hotel 14", "Hotel 15",
                "Hotel 16">>
TextPool == <<"txt", NoElement, "">>
ReviewsPool == <<"(120)", NoElement, "()", "12">>
AmenitiesPool == << <<>>, <<"Pool", "">>, <<"Wifi">> >>

\* The div[class*="uaTTDe"] elements of a results page, in document order.
SuggestionElements(n, shift) ==
    [i \in 1..n |-> [name |-> IF (i + shift) % 4 = 0 THEN NoElement
                                                     ELSE HotelNames[i],
                     price |-> Pick(TextPool, i + shift),
                     rating |-> Pick(TextPool, i + shift + 1),
                     reviews |-> Pick(ReviewsPool, i + shift),
                     deal |-> Pick(TextPool, i + shift + 2),
                     url |-> Pick(TextPool, i + shift),
                     image |-> Pick(TextPool, i + shift + 1),
                     location |-> Pick(TextPool, i + shift + 2),
                     amenities |-> Pick(AmenitiesPool, i + shift),
                     description |-> Pick(TextPool, i + shift)]]

HotelData(element) ==
    [name |-> Or(OptChain(element.name), ""),
     price |-> Or(OptChain(element.price), ""),
     rating |-> Or(OptChain(element.rating), ""),
     reviews |-> Or(ReviewsText(element.reviews), ""),
     deal |-> Or(OptChain(element.deal), ""),
     url |-> Or(OptChain(element.url), ""),
     image |-> Or(OptChain(element.image), ""),
     location |-> Or(OptChain(element.location), ""),
     amenities |-> [j \in 1..Len(element.amenities) |->
                        Or(element.amenities[j], "")],
     description |-> Or(OptChain(element.description), "")]

\* The suggestions extractor without its .slice(0, 10).
ExtractHotelSuggestions_NoSlice(hotelElements) ==
    [i \in 1..Len(hotelElements) |-> HotelData(hotelElements[i])]

\* Array.from(hotelElements).slice(0, 10), then one hotelData per element
ExtractHotelSuggestions(hotelElements) ==
    LET limitedElements == Slice(hotelElements, SuggestionsLimit) IN
    [i \in 1..Len(limitedElements) |-> HotelData(limitedElements[i])]

HotelSuggestionsStart_Validating ==
    /\ endpoint = "suggestions"
    /\ pc = "start"
    /\ IF Falsy(body.destination)
       THEN /\ RespondError(400, "Missing required parameter: destination",
                            Undefined, {"error", "example"})
            /\ Goto("done")
       ELSE /\ Goto("launch")
            /\ UNCHANGED resVars
    /\ UNCHANGED <<concVars, reqVars, browser, nav, dataVars>>

\* The handler reads the body and goes straight to chromium.launch.
HotelSuggestionsStart ==
    /\ endpoint = "suggestions"
    /\ pc = "start"
    /\ Goto("launch")
    /\ UNCHANGED <<concVars, reqVars, browser, nav, dataVars, resVars>>

HotelSuggestionsLaunch ==
    /\ endpoint = "suggestions"
    /\ pc = "launch"
    /\ \/ /\ browser' = "open"
          /\ Bump("launch")
          /\ Goto("goto")
          /\ UNCHANGED <<concVars, reqVars, dataVars, resVars>>
       \/ Raise

\* newContext, newPage, addInitScript, route, goto the homepage
HotelSuggestionsGoto ==
    /\ endpoint = "suggestions"
    /\ pc = "goto"
    /\ \/ /\ Navigate(<<"https://www.google.com">>)
          /\ Goto("search")
          /\ UNCHANGED <<concVars, reqVars, browser, dataVars, resVars>>
       \/ Raise

\* mouse move, wait for the search box, type the query, press Enter
HotelSuggestionsSearch ==
    /\ endpoint = "suggestions"
    /\ pc = "search"
    /\ \/ /\ Goto("guests")
          /\ UNCHANGED <<concVars, reqVars, browser, nav, dataVars, resVars>>
       \/ Raise

\* wait for and open the guest selector, pick the traveler count
HotelSuggestionsGuests ==
    /\ endpoint = "suggestions"
    /\ pc = "guests"
    /\ \/ /\ Goto("waitLandmark")
          /\ UNCHANGED <<concVars, reqVars, browser, nav, dataVars, resVars>>
       \/ Raise

\* try { waitForSelector(container, 30 s) } catch { close; 404 }
HotelSuggestionsWaitLandmark ==
    /\ endpoint = "suggestions"
    /\ pc = "waitLandmark"
    /\ \/ /\ Landmark("found")
          /\ Goto("extract")
       \/ /\ Landmark("absent")
          /\ Goto("closeNotFound")
    /\ UNCHANGED <<concVars, reqVars, browser, dataVars, resVars>>

\* The catch of the landmark wait: await browser.close() ...
HotelSuggestionsCloseNotFound ==
    /\ endpoint = "suggestions"
    /\ pc = "closeNotFound"
    /\ \/ /\ browser' = "closed"
          /\ Bump("close")
          /\ Goto("respondNotFound")
          /\ UNCHANGED <<concVars, reqVars, dataVars, resVars>>
       \/ Raise

\* ... and then the 404 of that catch.
HotelSuggestionsNotFound ==
    /\ endpoint = "suggestions"
    /\ pc = "respondNotFound"
    /\ RespondError(404, "No hotel suggestions found. The search might have been blocked.",
                    Undefined, {"error"})
    /\ Goto("done")
    /\ UNCHANGED <<concVars, reqVars, browser, nav, dataVars>>

HotelSuggestionsExtract ==
    /\ endpoint = "suggestions"
    /\ pc = "extract"
    /\ \/ /\ \E n \in 0..MaxElems, shift \in 0..MaxShift :
                /\ dom' = SuggestionElements(n, shift)
                /\ hotelSuggestions' =
                       ExtractHotelSuggestions(SuggestionElements(n, shift))
                \* the extractor selects the landmark containers themselves
                /\ nav' = [nav EXCEPT !.extract = @ + 1,
                                      !.landmark = IF n = 0 THEN "absent"
                                                            ELSE "found"]
          /\ Goto("close")
          /\ UNCHANGED <<concVars, reqVars, browser, hotelInfo, hotelImages,
                         validation, priceListings, resVars>>
       \/ Raise

HotelSuggestionsClose ==
    /\ endpoint = "suggestions"
    /\ pc = "close"
    /\ \/ /\ browser' = "closed"
          /\ Bump("close")
          /\ Goto("respond")
          /\ UNCHANGED <<concVars, reqVars, dataVars, resVars>>
       \/ Raise

HotelSuggestionsRespond ==
    /\ endpoint = "suggestions"
    /\ pc = "respond"
    /\ IF Len(hotelSuggestions) = 0
       THEN RespondError(404, "No hotel suggestions found", Undefined,
                         {"error"})
       ELSE Respond(200, {"hotelSuggestions"}, hotelSuggestions)
    /\ Goto("done")
    /\ UNCHANGED <<concVars, reqVars, browser, nav, dataVars>>

HotelSuggestionsCatch == Catch("suggestions")

Next ==
    \/ HotelInfoValidate
    \/ HotelInfoLaunch
    \/ HotelInfoGoto
    \/ HotelInfoCheckTab
    \/ HotelInfoClickTabDirect
    \/ HotelInfoWaitEntity
    \/ HotelInfoClickEntity
    \/ HotelInfoWaitNavigation
    \/ HotelInfoWaitTab
    \/ HotelInfoClickTab
    \/ HotelInfoWaitLandmark
    \/ HotelInfoExtract
    \/ HotelInfoClose
    \/ HotelInfoRespond
    \/ HotelInfoCatch
    \/ HotelImagesValidate
    \/ HotelImagesLaunch
    \/ HotelImagesGoto
    \/ HotelImagesCheckEntity
    \/ HotelImagesWaitEntityVisible
    \/ HotelImagesDirectClick
    \/ HotelImagesEvaluateClick
    \/ HotelImagesHandleClick
    \/ HotelImagesWaitNavigation
    \/ HotelImagesCheckTab
    \/ HotelImagesClickTabDirect
    \/ HotelImagesWaitEntity
    \/ HotelImagesClickEntity
    \/ HotelImagesWaitNavigation2
    \/ HotelImagesWaitTab
    \/ HotelImagesClickTab
    \/ HotelImagesWaitLandmark
    \/ HotelImagesExtract
    \/ HotelImagesClose
    \/ HotelImagesCheckImages
    \/ HotelImagesHeadDone
    \/ HotelImagesRespond
    \/ HotelImagesCatch
    \/ HotelPricesValidate
    \/ HotelPricesLaunch
    \/ HotelPricesGoto
    \/ HotelPricesCheckEntity
    \/ HotelPricesWaitEntityVisible
    \/ HotelPricesDirectClick
    \/ HotelPricesEvaluateClick
    \/ HotelPricesHandleClick
    \/ HotelPricesWaitNavigation
    \/ HotelPricesTab
    \/ HotelPricesTabDirect
    \/ HotelPricesExtract
    \/ HotelPricesClose
    \/ HotelPricesRespond
    \/ HotelPricesCatch
    \/ HotelSuggestionsStart
    \/ HotelSuggestionsLaunch
    \/ HotelSuggestionsGoto
    \/ HotelSuggestionsSearch
    \/ HotelSuggestionsGuests
    \/ HotelSuggestionsWaitLandmark
    \/ HotelSuggestionsCloseNotFound
    \/ HotelSuggestionsNotFound
    \/ HotelSuggestionsExtract
    \/ HotelSuggestionsClose
    \/ HotelSuggestionsRespond
    \/ HotelSuggestionsCatch

Spec == Init /\ [][Next]_vars

\* Every step that can complete or time out eventually does: the event loop
\* keeps running and every timed wait fires.
SpecLive == Init /\ [][Next]_vars /\ WF_vars(Next)

(***************************************************************************)
(* Concurrent requests.  Express starts one invocation of a handler per    *)
(* request; the event loop runs one of them at a time and switches at      *)
(* every await.  `browser` and `page` are consts of the invocation; the    *)
(* module holds no other mutable state.  What the outside world does to a  *)
(* request (its body, the step that rejects, the page it is shown) is the  *)
(* request's scenario.                                                     *)
(***************************************************************************)
NumReqs == 2

Reqs == 1..NumReqs

FailPoints == {"none", "launch", "goto", "extract", "close"}

Scenarios ==
    {[valid |-> FALSE, failAt |-> "none", page |-> "absent"]}
        \cup {[valid |-> TRUE, failAt |-> f, page |-> p] :
                 f \in FailPoints, p \in {"found", "absent"}}

NoBrowser == [state |-> "none", users |-> {}, closedBy |-> {}]

singleVars ==
    <<endpoint, body, nodeEnv, pc, browser, thrownAt, nav, hotelInfo,
      hotelImages, validation, priceListings, hotelSuggestions, dom,
      response, sent>>

InitConc ==
    /\ requests \in [Reqs -> [scenario : Scenarios, pc : {"start"},
                               browser : {0}, status : {0}]]
    /\ browsers = [o \in Reqs |-> NoBrowser]
    /\ endpoint = "images"
    /\ body = EmptyBody
    /\ nodeEnv = "production"
    /\ pc = "done"
    /\ browser = "none"
    /\ thrownAt = ""
    /\ nav = NavInit
    /\ hotelInfo = <<>>
    /\ hotelImages = <<>>
    /\ validation = <<>>
    /\ priceListings = <<>>
    /\ hotelSuggestions = <<>>
    /\ dom = <<>>
    /\ response = NoResponse
    /\ sent = 0

\* The invocation r moves to `next`.
ConcGoto(r, next) == requests' = [requests EXCEPT ![r].pc = next]

\* The invocation r answers and returns.
ConcSend(r, status) ==
    requests' = [requests EXCEPT ![r].pc = "done", ![r].status = status]

\* if (!destination) return res.status(400)...
ConcValidate(r) ==
    /\ requests[r].pc = "start"
    /\ IF requests[r].scenario.valid
       THEN ConcGoto(r, "launch")
       ELSE ConcSend(r, 400)
    /\ UNCHANGED <<browsers, singleVars>>

\* A variant that takes a browser another request has open, when there is one.
ConcLaunch_Shared(r) ==
    /\ requests[r].pc = "launch"
    /\ IF requests[r].scenario.failAt = "launch"
       THEN ConcGoto(r, "catch") /\ UNCHANGED browsers
       ELSE \/ \E o \in Reqs :
                 /\ browsers[o].state = "open"
                 /\ requests' = [requests EXCEPT ![r].pc = "goto",
                                                 ![r].browser = o]
                 /\ UNCHANGED browsers
            \/ /\ \A o \in Reqs : browsers[o].state # "open"
               /\ requests' = [requests EXCEPT ![r].pc = "goto",
                                               ![r].browser = r]
               /\ browsers' = [browsers EXCEPT ![r].state = "open"]
    /\ UNCHANGED singleVars

\* const browser = await puppeteer.launch(...): a new process, held by a
\* const of this invocation.
ConcLaunch(r) ==
    /\ requests[r].pc = "launch"
    /\ IF requests[r].scenario.failAt = "launch"
       THEN ConcGoto(r, "catch") /\ UNCHANGED browsers
       ELSE /\ requests' = [requests EXCEPT ![r].pc = "goto",
                                            ![r].browser = r]
            /\ browsers' = [browsers EXCEPT ![r].state = "open"]
    /\ UNCHANGED singleVars

\* An awaited call on the invocation's browser or page: it rejects when the
\* scenario says so, and it rejects on a browser that is no longer open.
ConcUse(r, step, next) ==
    /\ requests[r].pc = step
    /\ LET b == requests[r].browser IN
       IF requests[r].scenario.failAt = step \/ browsers[b].state # "open"
       THEN ConcGoto(r, "catch") /\ UNCHANGED browsers
       ELSE /\ ConcGoto(r, next)
            /\ browsers' = [browsers EXCEPT ![b].users = @ \cup {r}]
    /\ UNCHANGED singleVars

\* browser.newPage(), page.goto(searchUrl) and the navigation that follows
ConcNavigate(r) == ConcUse(r, "goto", "extract")

\* page.evaluate(extractor)
ConcExtract(r) == ConcUse(r, "extract", "close")

\* await browser.close()
ConcClose(r) ==
    /\ requests[r].pc = "close"
    /\ LET b == requests[r].browser IN
       IF requests[r].scenario.failAt = "close"
       THEN ConcGoto(r, "catch") /\ UNCHANGED browsers
       ELSE /\ ConcGoto(r, "respond")
            /\ browsers' = [browsers EXCEPT ![b].state = "closed",
                                            ![b].closedBy = @ \cup {r}]
    /\ UNCHANGED singleVars

\* The 404 for an empty extraction, otherwise the 200.
ConcRespond(r) ==
    /\ requests[r].pc = "respond"
    /\ ConcSend(r, IF requests[r].scenario.page = "found" THEN 200 ELSE 404)
    /\ UNCHANGED <<browsers, singleVars>>

\* catch (error) { res.status(500)... }: the browser is left as it is.
ConcCatch(r) ==
    /\ requests[r].pc = "catch"
    /\ ConcSend(r, 500)
    /\ UNCHANGED <<browsers, singleVars>>

NextConc ==
    \E r \in Reqs :
        \/ ConcValidate(r)
        \/ ConcLaunch(r)
        \/ ConcNavigate(r)
        \/ ConcExtract(r)
        \/ ConcClose(r)
        \/ ConcRespond(r)
        \/ ConcCatch(r)

SpecConc == InitConc /\ [][NextConc]_vars

(***************************************************************************)
(* Properties.                                                             *)
(***************************************************************************)
Min(a, b) == IF a < b THEN a ELSE b

Done == pc = "done"

\* The request lacks a field its endpoint requires (absent or empty).
MissingRequired ==
    CASE endpoint \in {"info", "images", "suggestions"} ->
            body.destination \in {Undefined, ""}
      [] endpoint = "prices" ->
            \E f \in {"hotelName", "location", "checkInDate", "checkOutDate"} :
                body[f] \in {Undefined, ""}

\* C1: on every path after the browser was launched, failures of automation
\* steps included, the browser is closed once the handler has responded and
\* returned.
C1_BrowserClosedOnEveryPath ==
    (Done /\ nav.launch > 0) => browser = "closed"

\* C2: a request missing a required field is answered 400 with an `example`
\* field in the body, on all four endpoints.
C2_MissingFieldIs400WithExample ==
    (Done /\ MissingRequired) =>
        (response.status = 400 /\ "example" \in response.keys)

\* C3: a request whose required fields are absent or empty never launches a
\* browser and never navigates, hotel-suggestions included.
C3_NoBrowserWorkWithoutRequiredFields ==
    MissingRequired =>
        (browser = "none" /\ nav.launch = 0 /\ nav.goto = 0)

\* C4: when the landmark container is still absent after the waits, the
\* response is 404, never a crash and never 200 with a null payload.
C4_AbsentLandmarkIs404 ==
    (Done /\ nav.landmark = "absent") => response.status = 404

\* The HEAD request of a url succeeded with an image/* content type.
HeadAccepts(url) ==
    LET res == Fetch(url) IN
    /\ ~res.throws
    /\ res.ok
    /\ ~res.contentType.isNull
    /\ Len(res.contentType.chars) >= 6
    /\ SubSeq(res.contentType.chars, 1, 6) = <<"i", "m", "a", "g", "e", "/">>

InList(x, list) == \E j \in 1..Len(list) : list[j] = x

\* C5: once hotel-images has validated its candidates, in whatever order
\* the HEAD requests completed, a candidate is in the returned list if and
\* only if its own HEAD request succeeded with a content type starting
\* with image/.
C5_ImageReturnedIffHeadAccepts ==
    (endpoint = "images" /\ Done /\ thrownAt = "" /\ nav.head > 0) =>
        \A i \in 1..Len(hotelImages) :
            InList(hotelImages[i], response.payload)
                <=> HeadAccepts(hotelImages[i].url)

C5_Witness ==
    /\ endpoint = "images"
    /\ Done
    /\ response.status = 200
    /\ Len(hotelImages) >= 3
    /\ Len(response.payload) >= 2
    /\ Len(response.payload) < Len(hotelImages)

\* C6: the suggestions list has at most 10 entries, however many elements
\* the page matched, and they are the first 10 matched elements in
\* document order.
C6_SuggestionsAreFirstTen ==
    (endpoint = "suggestions" /\ nav.extract > 0) =>
        /\ Len(hotelSuggestions) <= 10
        /\ Len(hotelSuggestions) = Min(Len(dom), 10)
        /\ \A i \in 1..Len(hotelSuggestions) :
              hotelSuggestions[i] = HotelData(dom[i])
        /\ response.status = 200 => response.payload = hotelSuggestions

C6_Witness ==
    /\ endpoint = "suggestions"
    /\ response.status = 200
    /\ Len(dom) > 10
    /\ Len(response.payload) = 10

\* C7: hotel-images turns at most the first 10 matched photo elements into
\* candidates (exactly 10 when the page has 10 or more) before any HEAD
\* request is issued; one HEAD request per candidate, so at most 10, and
\* the returned list holds only candidates.
C7_ImagesTruncatedBeforeValidation ==
    endpoint = "images" =>
        /\ nav.extract = 0 => (nav.head = 0 /\ hotelImages = <<>>)
        /\ nav.extract > 0 =>
              /\ Len(hotelImages) = Min(Len(dom), 10)
              /\ \A i \in 1..Len(hotelImages) :
                    hotelImages[i] = ImageRecord(dom[i])
        /\ nav.head <= 10
        /\ nav.head \in {0, Len(hotelImages)}
        /\ Len(validation) \in {0, Len(hotelImages)}
        /\ response.status = 200 =>
              /\ Len(response.payload) <= 10
              /\ \A j \in 1..Len(response.payload) :
                    InList(response.payload[j], hotelImages)

C7_Witness ==
    /\ endpoint = "images"
    /\ response.status = 200
    /\ Len(dom) > 10
    /\ Len(hotelImages) = 10
    /\ nav.head = 10
    /\ Len(response.payload) < 10

\* The string fields of a 200 payload.
PayloadStrings ==
    CASE endpoint = "info" ->
            {response.payload[j][f] :
                j \in 1..Len(response.payload),
                f \in {"description", "checkInTime", "checkOutTime",
                       "address", "phone", "websiteUrl"}}
      [] endpoint = "images" ->
            {response.payload[j][f] :
                j \in 1..Len(response.payload),
                f \in {"url", "alt", "caption"}}
      [] endpoint = "suggestions" ->
            {response.payload[j][f] :
                j \in 1..Len(response.payload),
                f \in {"name", "price", "rating", "reviews", "deal", "url",
                       "image", "location", "description"}}
      [] endpoint = "prices" ->
            UNION {{response.payload[j].rooms[r][f] :
                        r \in 1..Len(response.payload[j].rooms),
                        f \in {"type", "basePrice", "totalPrice", "url",
                               "cancellationPolicy"}} :
                   j \in 1..Len(response.payload)}

\* C8: in every 200 response every string field of the payload is a
\* string, never undefined; the room's cancellationPolicy included.
C8_NoUndefinedStringField ==
    response.status = 200 =>
        \A v \in PayloadStrings : v \notin {Undefined, NoElement}

\* C9: every 400, 404 and 500 response carries both an `error` and a
\* `message` field.
C9_FailureHasErrorAndMessage ==
    response.status \in {400, 404, 500} =>
        {"error", "message"} \subseteq response.keys

\* What the extraction (and, for images, the validation) left to return.
NothingExtracted ==
    CASE endpoint = "info" -> hotelInfo = <<>>
      [] endpoint = "images" ->
            \/ hotelImages = <<>>
            \/ \A i \in 1..Len(validation) : validation[i] = "null"
      [] endpoint = "prices" -> priceListings = <<>>
      [] endpoint = "suggestions" -> hotelSuggestions = <<>>

\* C10: a 200 response never carries a null or empty payload; a handler
\* that ran to its response with a null or empty extraction answers 404.
C10_No200WithEmptyPayload ==
    /\ response.status = 200 =>
          (response.payload # <<>> /\ ~NothingExtracted)
    /\ (Done /\ thrownAt = "" /\ nav.extract > 0 /\ NothingExtracted) =>
          response.status = 404

C10_Witness ==
    /\ endpoint = "images"
    /\ Done
    /\ Len(hotelImages) > 0
    /\ nav.head > 0
    /\ response.status = 404

\* C11: a request that ends in an unexpected exception is answered 500, the
\* body carries the exception's message, and it carries `details` exactly
\* when NODE_ENV is "development"; no other answer is a 500.
C11_ExceptionIs500DetailsIffDevelopment ==
    /\ (Done /\ thrownAt # "") =>
          /\ response.status = 500
          /\ response.error = CatchError(endpoint)
          /\ response.message = thrownAt
          /\ "message" \in response.keys
          /\ ("details" \in response.keys) <=> (nodeEnv = "development")
    /\ (response.status = 500) => (thrownAt # "")

C11_Witness ==
    /\ Done
    /\ thrownAt = "goto"
    /\ nodeEnv = "production"
    /\ response.status = 500
    /\ "details" \notin response.keys

\* C12: a hotel-prices request with all four fields whose page shows no
\* provider section, and whose steps raise no exception, is answered 404 with
\* error "Could not find hotel prices", whether or not the entity link or the
\* Prices tab was found and clicked.
C12_NoProviderSectionIs404 ==
    (/\ endpoint = "prices"
     /\ Done
     /\ thrownAt = ""
     /\ nav.extract > 0
     /\ nav.landmark = "absent") =>
        /\ response.status = 404
        /\ response.error = "Could not find hotel prices"
        /\ response.keys = {"error", "message"}

C12_Witness ==
    /\ endpoint = "prices"
    /\ Done
    /\ nav.landmark = "absent"
    /\ nav.entityClick = 0
    /\ nav.tabClick = 0
    /\ response.status = 404
    /\ response.error = "Could not find hotel prices"

\* C13: every price listing of a 200 answer of hotel-prices carries the
\* provider name and the provider logo together with its list of rooms, and
\* every room carries type, base price, total price and URL.
C13_ListingCarriesProvider ==
    (endpoint = "prices" /\ response.status = 200) =>
        \A i \in 1..Len(response.payload) :
            /\ {"providerName", "providerLogo", "rooms"}
                   \subseteq DOMAIN response.payload[i]
            /\ \A j \in 1..Len(response.payload[i].rooms) :
                   {"type", "basePrice", "totalPrice", "url"}
                       \subseteq DOMAIN response.payload[i].rooms[j]

\* C14: hotel-suggestions never answers 400, whatever body fields are
\* missing; a finished request has answered 200, 404 or 500.
C14_SuggestionsNever400 ==
    (endpoint = "suggestions") =>
        /\ response.status \in {0, 200, 404, 500}
        /\ Done => response.status \in {200, 404, 500}

C14_Witness ==
    /\ endpoint = "suggestions"
    /\ Done
    /\ body.destination = Undefined
    /\ body.checkIn = Undefined
    /\ body.checkOut = Undefined
    /\ body.travelers = Undefined
    /\ response.status = 200

\* C15: a step that sends a 200 or a 404 after a browser was launched starts
\* with browser.close() already completed, and in hotel-images a step that
\* issues image-validation HEAD requests starts with the browser closed.
C15_TeardownPrecedesRespond ==
    [][ /\ (/\ sent' = sent + 1
            /\ response'.status \in {200, 404}
            /\ nav.launch > 0) =>
               (browser = "closed" /\ nav.close = 1)
        /\ (nav'.head > nav.head) =>
               (endpoint = "images" /\ browser = "closed" /\ nav.close = 1)
      ]_vars

C15_Witness ==
    /\ endpoint = "images"
    /\ Done
    /\ nav.launch = 1
    /\ nav.head > 0
    /\ browser = "closed"
    /\ response.status = 200

\* The two orders of page interactions the branch of hotel-info can take.
DirectTabVisible == <<"tabPresent", "clickTab">>

NeedEntityClick ==
    <<"tabAbsent", "waitEntity", "clickEntity", "waitNavigation", "waitTab",
      "clickTab">>

IsPrefix(s, t) == Len(s) <= Len(t) /\ s = SubSeq(t, 1, Len(s))

InfoTabActive ==
    \/ pc \in {"waitLandmark", "extract", "close", "respond"}
    \/ nav.extract > 0
    \/ thrownAt \in {"waitLandmark", "extract", "close"}

\* C16: in hotel-info the interactions after the search page loaded are
\* either "tab marker present, click the tab" or "tab marker absent, wait for
\* the entity link, click it, wait for navigation, wait for the tab marker,
\* click the tab", in that order; once the branch is over the tab was clicked
\* exactly once, and the entity link was clicked once in the second branch
\* and never in the first.
C16_InfoBranchOrder ==
    (endpoint = "info") =>
        /\ IsPrefix(nav.ui, DirectTabVisible) \/ IsPrefix(nav.ui, NeedEntityClick)
        /\ nav.tabClick = Len(SelectSeq(nav.ui, LAMBDA e : e = "clickTab"))
        /\ nav.entityClick = Len(SelectSeq(nav.ui, LAMBDA e : e = "clickEntity"))
        /\ nav.ui # <<>> => nav.goto = 1
        /\ InfoTabActive =>
              /\ nav.ui \in {DirectTabVisible, NeedEntityClick}
              /\ nav.tabClick = 1
              /\ nav.entityClick = (IF nav.ui = NeedEntityClick THEN 1 ELSE 0)

C16_Witness ==
    /\ endpoint = "info"
    /\ Done
    /\ response.status = 200
    /\ nav.ui = NeedEntityClick
    /\ nav.tabClick = 1
    /\ nav.entityClick = 1

\* The extraction step is about to run or has run.
ContentLoaded == pc = "extract" \/ nav.extract > 0

LastUi == IF nav.ui = <<>> THEN "" ELSE nav.ui[Len(nav.ui)]

\* C17 (as stated): in hotel-info, hotel-images and hotel-prices the
\* extraction step is reached only after the target tab has been clicked.
C17_ExtractionOnlyAfterTabClick ==
    (endpoint \in {"info", "images", "prices"} /\ ContentLoaded) =>
        nav.tabClick >= 1

\* C17 (amended): in hotel-info and hotel-images the extraction step is
\* reached only after the target tab has been clicked, exactly once and as
\* the last page interaction; in hotel-prices it is reached after the
\* attempt on the Prices tab, whether that attempt clicked the tab or failed.
C17_ExtractionAfterTabStep ==
    /\ (endpoint \in {"info", "images"} /\ ContentLoaded) =>
          (nav.tabClick = 1 /\ LastUi = "clickTab")
    /\ (endpoint = "prices" /\ ContentLoaded) =>
          /\ LastUi \in {"clickTab", "tabMissed"}
          /\ nav.tabClick = (IF LastUi = "clickTab" THEN 1 ELSE 0)

C17_Witness ==
    /\ endpoint = "prices"
    /\ Done
    /\ nav.extract = 1
    /\ nav.tabClick = 0
    /\ LastUi = "tabMissed"
    /\ response.status = 200

\* The interactions of the three click strategies, in the order recorded.
StrategyEvents ==
    {"click1", "click1Failed", "click2", "click2NoLink", "click2Failed",
     "click3", "click3NoElement"}

Strategies == SelectSeq(nav.ui, LAMBDA e : e \in StrategyEvents)

\* The strategies are over: the handler waits for the navigation or is past it.
StrategiesOver ==
    /\ Strategies # <<>>
    /\ pc \notin {"click2", "click3"}
    /\ thrownAt # "click3"

\* C18: in hotel-images and hotel-prices the entity-link click tries direct
\* click, evaluate click and element-handle click in that order, a later
\* strategy only after every earlier one failed, and stops at the first
\* strategy that clicked the link; a strategy that found no link to click is
\* a failure, so the next strategy is tried after it.
C18_ClickStrategiesStopAtFirstClick ==
    (endpoint \in {"images", "prices"} /\ StrategiesOver) =>
        Strategies \in
            {<<"click1">>,
             <<"click1Failed", "click2">>,
             <<"click1Failed", "click2Failed", "click3">>,
             <<"click1Failed", "click2NoLink", "click3">>,
             <<"click1Failed", "click2Failed", "click3NoElement">>,
             <<"click1Failed", "click2NoLink", "click3NoElement">>}

\* The steps of each handler in program order.
Order(e) ==
    CASE e = "info" ->
           <<"start", "launch", "goto", "checkTab", "clickTabDirect",
             "waitEntity", "clickEntity", "waitNavigation", "waitTab",
             "clickTab", "waitLandmark", "extract", "close", "respond",
             "catch", "done">>
      [] e = "images" ->
           <<"start", "launch", "goto", "checkEntity", "waitEntityVisible",
             "click1", "click2", "click3", "waitNavigation", "checkTab",
             "clickTabDirect", "waitEntity", "clickEntity", "waitNavigation2",
             "waitTab", "clickTab", "waitLandmark", "extract", "close",
             "checkImages", "validating", "catch", "done">>
      [] e = "prices" ->
           <<"start", "launch", "goto", "checkEntity", "waitEntityVisible",
             "click1", "click2", "click3", "waitNavigation", "pricesTab",
             "pricesTabDirect", "extract", "close", "respond", "catch",
             "done">>
      [] e = "suggestions" ->
           <<"start", "launch", "goto", "search", "guests", "waitLandmark",
             "closeNotFound", "respondNotFound", "extract", "close",
             "respond", "catch", "done">>

Steps(e) == {Order(e)[i] : i \in 1..Len(Order(e))}

RankTable ==
    [e \in Endpoints |->
        [p \in Steps(e) |-> CHOOSE i \in 1..Len(Order(e)) : Order(e)[i] = p]]

Rank(e, p) == RankTable[e][p]

Count(s, e) == Len(SelectSeq(s, LAMBDA x : x = e))

\* The waits of the navigation state machine, as recorded.
WaitEvents ==
    {"waitEntityVisible", "waitEntity", "waitNavigation", "waitTab"}

\* The failures a handler catches where they happen.
LocalFailures ==
    {"click1Failed", "click2Failed", "navigationTimeout", "tabMissed"}

\* This step recorded a failure that was caught where it happened.
LocalFailure ==
    /\ Len(nav'.ui) = Len(nav.ui) + 1
    /\ nav'.ui[Len(nav'.ui)] \in LocalFailures

\* This step is a failure: an exception left the step, or one was caught
\* where it happened.
Failure == thrownAt' # thrownAt \/ LocalFailure

\* The handler never moves to an earlier step.
StepsForward ==
    /\ Rank(endpoint, pc') >= Rank(endpoint, pc)
    /\ (pc' = pc) => (pc = "validating")

\* C19 (as stated): a request launches at most one browser, loads the search
\* URL at most once, performs each wait of the navigation at most once, never
\* moves to an earlier step, and after any failure goes straight to its
\* error response.
C19_NoRetriesFailureGoesToError ==
    [][ /\ nav'.launch <= 1
        /\ nav'.goto <= 1
        /\ \A w \in WaitEvents : Count(nav'.ui, w) <= 1
        /\ StepsForward
        /\ Failure => pc' = "catch"
      ]_vars

\* C19 (amended): a request launches at most one browser, loads the search
\* URL at most once, extracts and closes at most once and never moves to an
\* earlier step; each wait is performed at most once, except that
\* hotel-images may wait for a navigation twice (once after each of its two
\* entity-link clicks); an exception that leaves a step goes straight to the
\* 500 answer, while a failure caught where it happens (a click strategy, a
\* navigation timeout of images or prices, the Prices tab) lets the handler
\* go on with its next step, never with an earlier one.
C19_NoStepReentered ==
    [][ /\ nav'.launch <= 1
        /\ nav'.goto <= 1
        /\ nav'.extract <= 1
        /\ nav'.close <= 1
        /\ sent' <= 1
        /\ \A w \in WaitEvents \ {"waitNavigation"} : Count(nav'.ui, w) <= 1
        /\ Count(nav'.ui, "waitNavigation") + Count(nav'.ui, "navigationTimeout")
              <= (IF endpoint = "images" THEN 2 ELSE 1)
        /\ StepsForward
        /\ (thrownAt' # thrownAt) => (pc' = "catch" /\ thrownAt' = pc)
        /\ (pc = "catch") => (pc' = "done" /\ response'.status = 500)
        /\ LocalFailure =>
              (pc' # "catch" /\ Rank(endpoint, pc') > Rank(endpoint, pc))
      ]_vars

C19_Witness ==
    /\ endpoint = "images"
    /\ Done
    /\ response.status = 200
    /\ Count(nav.ui, "click1Failed") = 1
    /\ Count(nav.ui, "navigationTimeout") = 1
    /\ Count(nav.ui, "waitNavigation") = 1
    /\ nav.launch = 1
    /\ nav.goto = 1

\* The answer a request gets when it is served alone.
AloneStatus(scenario) ==
    IF ~scenario.valid THEN 400
    ELSE IF scenario.failAt # "none" THEN 500
    ELSE IF scenario.page = "found" THEN 200
    ELSE 404

\* C20: under every interleaving of concurrent requests, a request holds no
\* browser but the one it launched, a browser is used and closed by no
\* request but the one that launched it, and the answer of a request is the
\* answer it gets when served alone, whatever the other requests do
\* (fail, leave their browser open, finish first or last).
C20_RequestsIsolated ==
    \A r \in DOMAIN requests :
        /\ requests[r].browser \in {0, r}
        /\ browsers[r].users \subseteq {r}
        /\ browsers[r].closedBy \subseteq {r}
        /\ (requests[r].pc = "done") =>
              (requests[r].status = AloneStatus(requests[r].scenario))

C20_Witness ==
    /\ DOMAIN requests = Reqs
    /\ requests[1].pc = "done"
    /\ requests[1].status = 500
    /\ browsers[1].state = "open"
    /\ requests[2].pc = "done"
    /\ requests[2].status = 200
    /\ browsers[2].state = "closed"
    /\ browsers[2].users = {2}

Pending ==
    {i \in 1..Len(validation) : validation[i] \in {"pending", "stalled"}}

\* C21: hotel-images issues the HEAD requests of all candidates in one step,
\* before any of them has settled, and the step that filters and answers
\* (200 or the 404 after validation) starts with no validation pending.
C21_JoinBeforeFilter ==
    [][ (endpoint = "images") =>
          /\ (pc = "checkImages" /\ pc' = "validating") =>
                /\ nav'.head = nav.head + Len(hotelImages)
                /\ Len(validation') = Len(hotelImages)
                /\ \A i \in 1..Len(validation') :
                      validation'[i] \in {"pending", "stalled"}
          /\ (pc = "validating" /\ sent' = sent + 1) =>
                /\ Pending = {}
                /\ Len(validation) = Len(hotelImages)
                /\ response'.status \in {200, 404}
      ]_vars

C21_Witness ==
    /\ endpoint = "images"
    /\ Done
    /\ nav.head = 10
    /\ Len(validation) = 10
    /\ Pending = {}
    /\ response.status = 200
    /\ Len(response.payload) >= 2

\* The validation of a url fails: the fetch throws, the status is not 2xx,
\* or the content type is missing or not image/*.
ValidationFails(url) ==
    LET res == Fetch(url) IN
    \/ res.throws
    \/ ~res.ok
    \/ res.contentType.isNull
    \/ ~StartsWith(res.contentType.chars, ImageSlash)

\* C22: a failed validation of one image (thrown fetch, non-2xx status,
\* missing or non-image content type) never takes hotel-images to its 500:
\* no exception leaves the validation, the request is answered 200 or 404,
\* the failed image is left out, and every image whose own validation
\* succeeded is returned.
C22_ValidationFailureOnlyExcludes ==
    (endpoint = "images") =>
        /\ thrownAt # "validating"
        /\ (pc = "validating") => (thrownAt = "" /\ response.status = 0)
        /\ (Done /\ nav.head > 0) =>
              /\ response.status \in {200, 404}
              /\ \A i \in 1..Len(hotelImages) :
                    /\ ValidationFails(hotelImages[i].url) =>
                          ~InList(hotelImages[i], response.payload)
                    /\ ~ValidationFails(hotelImages[i].url) =>
                          InList(hotelImages[i], response.payload)

C22_Witness ==
    /\ endpoint = "images"
    /\ Done
    /\ response.status = 200
    /\ \E i \in 1..Len(hotelImages) : Fetch(hotelImages[i].url).throws
    /\ \E i \in 1..Len(hotelImages) :
          ~Fetch(hotelImages[i].url).throws /\ ~Fetch(hotelImages[i].url).ok
    /\ \E i \in 1..Len(hotelImages) :
          /\ ~ValidationFails(hotelImages[i].url)
          /\ InList(hotelImages[i], response.payload)

\* C23: every request eventually receives a response, given that every step
\* that can complete or time out eventually does.
C23_EveryRequestAnswered == <>(response.status # 0)

\* The extraction produced its hard null / empty-list result.
HardEmpty ==
    CASE endpoint = "info" -> hotelInfo = <<>>
      [] endpoint = "images" -> hotelImages = <<>>
      [] endpoint = "prices" -> priceListings = <<>>
      [] endpoint = "suggestions" -> hotelSuggestions = <<>>

\* Every matched element gave its record, whatever fields it lacks.
OneRecordPerElement ==
    CASE endpoint = "info" ->
            (nav.landmark = "found") =>
                (Len(hotelInfo) = 1 /\
                 DOMAIN hotelInfo[1] =
                     {"description", "checkInTime", "checkOutTime", "address",
                      "phone", "websiteUrl"})
      [] endpoint = "images" -> Len(hotelImages) = Min(Len(dom), ImagesLimit)
      [] endpoint = "prices" ->
            (priceListings # <<>>) =>
                (Len(priceListings) = 1 /\
                 Len(priceListings[1].rooms) = Len(dom))
      [] endpoint = "suggestions" ->
            Len(hotelSuggestions) = Min(Len(dom), SuggestionsLimit)

C25_ExactlyOneResponse == [](sent <= 1) /\ <>[](sent = 1)

\* The candidates whose own HEAD request is accepted, in document order.
AcceptedInOrder(images) ==
    SelectSeq(images, LAMBDA image : HeadAccepts(image.url))

\* C26: the hotelImages list that hotel-images returns is the extracted
\* candidates with the rejected ones left out, in their document order,
\* whatever order the HEAD requests completed in; it is a function of the
\* candidates and of each URL's validation outcome alone, so two runs with
\* the same candidates and outcomes return the same list.
C26_DocumentOrderKept ==
    (endpoint = "images" /\ Done /\ nav.head > 0) =>
        IF AcceptedInOrder(hotelImages) = <<>>
        THEN response.status = 404
        ELSE /\ response.status = 200
             /\ response.payload = AcceptedInOrder(hotelImages)

C26_Witness ==
    /\ endpoint = "images"
    /\ Done
    /\ nav.reordered
    /\ response.status = 200
    /\ Len(response.payload) >= 2
    /\ Len(response.payload) < Len(hotelImages)
    /\ response.payload[1] # response.payload[2]

\* C27: within one hotel-images request an entity link is clicked at most
\* once: after a click of the three-strategy block the handler does not
\* wait for and click an entity link again before the Photos tab.
C27_EntityClickedAtMostOnce ==
    (endpoint = "images") =>
        /\ nav.entityClick <= 1
        /\ Count(nav.ui, "clickEntity") > 0 =>
              \A e \in {"click1", "click2", "click3"} : Count(nav.ui, e) = 0

\* The Prices tab was not found or not clicked, or the navigation after the
\* entity-link click timed out: the failures hotel-prices swallows.
Swallowed ==
    \/ Count(nav.ui, "tabMissed") > 0
    \/ Count(nav.ui, "navigationTimeout") > 0

\* C28 (as stated): in hotel-prices a missed Prices tab and a navigation
\* timeout after the entity-link click are swallowed: a request in which
\* one happened extracts the prices and ends in a 200 or a 404, never in a
\* 500.
C28_SwallowedFailureNever500 ==
    (endpoint = "prices" /\ Swallowed /\ Done) =>
        /\ response.status \in {200, 404}
        /\ nav.extract = 1

\* C28 (amended): in hotel-prices a missed Prices tab and a navigation
\* timeout after the entity-link click are swallowed: the handler goes on
\* with its next step towards the price extraction, and a request in which
\* one happened ends in a 200 or a 404 after the extraction unless a later
\* step (the extraction itself or browser.close()) throws; only such a
\* later step gives a 500.
C28_SwallowedFailureContinues ==
    (endpoint = "prices" /\ Swallowed) =>
        /\ pc \in {"pricesTab", "extract", "close", "respond", "catch", "done"}
        /\ (pc \in {"close", "respond"}) => nav.extract = 1
        /\ (pc = "catch") => thrownAt \in {"extract", "close"}
        /\ Done =>
              IF response.status = 500
              THEN thrownAt \in {"extract", "close"}
              ELSE /\ response.status \in {200, 404}
                   /\ nav.extract = 1
                   /\ (response.status = 404) <=> (priceListings = <<>>)

C28_Witness ==
    /\ endpoint = "prices"
    /\ Done
    /\ Count(nav.ui, "navigationTimeout") = 1
    /\ Count(nav.ui, "tabMissed") = 1
    /\ nav.extract = 1
    /\ response.status = 200

\* What hotel-prices answers to a request that passed the presence check,
\* from the page it met (the rooms of the provider section, the step that
\* threw, if any) and the environment: nothing of the request's dates.
PricesAnswer(page, thrown, env) ==
    IF thrown # ""
    THEN [status |-> 500,
          keys |-> IF env = "development"
                   THEN {"error", "message", "details"}
                   ELSE {"error", "message"},
          payload |-> <<>>,
          error |-> "Failed to fetch hotel prices",
          message |-> thrown]
    ELSE IF page = <<>>
    THEN [status |-> 404,
          keys |-> {"error", "message"},
          payload |-> <<>>,
          error |-> "Could not find hotel prices",
          message |-> "No price listings were found for the specified hotel. Please try a different hotel name or location."]
    ELSE [status |-> 200,
          keys |-> {"prices"},
          payload |-> << [rooms |-> [i \in 1..Len(page) |-> RoomData(page[i])]] >>,
          error |-> Undefined,
          message |-> Undefined]

\* C29: the hotel-prices response depends on checkInDate and checkOutDate
\* only through the presence check: whatever non-empty dates a request
\* carries, the search URL is built from hotelName and location alone and
\* the status and body are those the page and the failing step determine,
\* so two requests that differ in their dates only navigate to the same URL
\* and, against the same page, get the same answer.
C29_DatesOnlyChecked ==
    (endpoint = "prices") =>
        /\ (nav.launch > 0) =>
              (~Falsy(body.checkInDate) /\ ~Falsy(body.checkOutDate))
        /\ (nav.goto > 0) =>
              nav.url = <<TravelSearch, body.hotelName, "%20", body.location>>
        /\ \A k \in 1..Len(nav.url) :
              nav.url[k] \notin {body.checkInDate, body.checkOutDate}
        /\ (Done /\ nav.launch > 0) =>
              response = PricesAnswer(dom, thrownAt, nodeEnv)

C29_Witness ==
    /\ endpoint = "prices"
    /\ Done
    /\ body.checkInDate = "2025-06-05"
    /\ body.checkOutDate = "2025-06-01"
    /\ nav.url # <<>>
    /\ response.status = 200

\* The URLs of the candidates, in document order.
UrlsOf(images) == [i \in 1..Len(images) |-> images[i].url]

\* hotel-images has started the validation of its candidates and no step
\* threw.
ValidationStarted ==
    /\ endpoint = "images"
    /\ thrownAt = ""
    /\ hotelImages # <<>>
    /\ pc = "validating" \/ (Done /\ nav.close = 1)

\* Without candidates hotel-images sends no HEAD request and answers 404.
NoCandidatesNoHead ==
    (endpoint = "images" /\ hotelImages = <<>>) =>
        /\ nav.head = 0
        /\ nav.headTo = <<>>
        /\ validation = <<>>
        /\ (Done /\ thrownAt = "" /\ nav.extract = 1) =>
              (response.status = 404 /\
               response.error = "Could not find hotel images")

====
